---- MODULE Spec2Model ----
(***************************************************************************)
(* Model of x-pack/agent/pkg/fleetapi/enroll_cmd.go: the EnrollType JSON   *)
(* codec, the request/response validation and EnrollCmd.Execute.           *)
(*                                                                         *)
(* Go strings that the code slices or looks up byte by byte (EnrollType,   *)
(* the bytes handed to UnmarshalJSON) are sequences of one-character       *)
(* strings.  Strings the code only tests for emptiness are TLA+ strings,   *)
(* with len(s) == 0 rendered as s = "".  A nil pointer is <<>> and a       *)
(* non-nil pointer to x is <<x>>.                                          *)
(***************************************************************************)
EXTENDS Integers, Sequences, FiniteSets, TLC

VARIABLES
    pc,             \* position of the running Execute call
    calls,          \* number of Execute invocations started on the command
    req,            \* r *EnrollRequest, the argument of Execute
    headers,        \* local variable headers (line 174)
    b,              \* local variable b, the serialized request (line 178)
    sent,           \* the calls made to e.client.Send, in order
    resp,           \* local variable resp (line 183), <<>> when not received
    deferred,       \* the calls deferred by the running Execute (line 187)
    enrollResponse, \* local variable enrollResponse (line 193)
    extracted,      \* result of extract(resp.Body), <<>> when not called
    ret,            \* the pair Execute returned, <<>> while it is running
    events,         \* the calls Execute made so far, in order
    cOp,            \* codec harness: the last codec operation applied
    cIn,            \* codec harness: its input bytes / value
    cTarget,        \* codec harness: *p before UnmarshalJSON
    cOut            \* codec harness: its result

vars == <<pc, calls, req, headers, b, sent, resp, deferred, enrollResponse,
          extracted, ret, events, cOp, cIn, cTarget, cOut>>

execVars == <<pc, calls, req, headers, b, sent, resp, deferred, enrollResponse,
              extracted, ret, events>>

codecVars == <<cOp, cIn, cTarget, cOut>>

-----------------------------------------------------------------------------
(* Bounds of the model.                                                    *)

\* every byte string up to this length is tried as input of UnmarshalJSON
MaxWireLen == 2

\* number of Execute invocations made on one EnrollCmd
MaxCalls == 2

-----------------------------------------------------------------------------
(* Errors.  An error is a record; the nil error is NilErr.                 *)

NilErr == [kind |-> "nil", msgs |-> <<>>]

\* errors.New / fmt.Errorf
NewError(msg) == [kind |-> "error", msgs |-> <<msg>>]

\* multierror.Append(err, e): appends to the accumulated list, creating the
\* *multierror.Error when err is nil
MultiAppend(err, msg) ==
    IF err = NilErr THEN [kind |-> "multierror", msgs |-> <<msg>>]
    ELSE [kind |-> "multierror", msgs |-> Append(err.msgs, msg)]

\* errors.Wrap(err, msg)
Wrap(err, msg) == [kind |-> "wrapped", msgs |-> <<msg>> \o err.msgs]

Range(s) == {s[i] : i \in DOMAIN s}

-----------------------------------------------------------------------------
(* EnrollType and its JSON codec.                                          *)

Quote == "\""

PERMANENT == <<"P", "E", "R", "M", "A", "N", "E", "N", "T">>

PermanentEnroll == PERMANENT

\* an EnrollType value no constant declares
TEMPORARY == <<"T", "E", "M", "P">>

mapEnrollType == [k \in {PERMANENT} |-> PermanentEnroll]

\* built by init() from mapEnrollType
reverseMapEnrollType ==
    [v \in {mapEnrollType[k] : k \in DOMAIN mapEnrollType} |->
        CHOOSE k \in DOMAIN mapEnrollType : mapEnrollType[k] = v]

ErrShort == "invalid enroll type received"
ErrInvalidType == "value is an invalid enrollment type, supported type is 'PERMANENT'"
ErrUnknownType == "cannot serialize unknown type"

\* (p *EnrollType) UnmarshalJSON(b): the value of *p afterwards and the error
UnmarshalJSON(p, bytes) ==
    IF Len(bytes) <= 2 THEN [p |-> p, err |-> NewError(ErrShort)]
    ELSE LET s == SubSeq(bytes, 2, Len(bytes) - 1)
         IN  IF s \notin DOMAIN mapEnrollType
             THEN [p |-> p, err |-> NewError(ErrInvalidType)]
             ELSE [p |-> mapEnrollType[s], err |-> NilErr]

\* json.Marshal of a Go string: quoted, with quote and backslash escaped
RECURSIVE JsonEscape(_)
JsonEscape(s) ==
    IF s = <<>> THEN <<>>
    ELSE (IF Head(s) \in {Quote, "\\"} THEN <<"\\", Head(s)>> ELSE <<Head(s)>>)
         \o JsonEscape(Tail(s))

JsonMarshalString(s) == <<Quote>> \o JsonEscape(s) \o <<Quote>>

\* MarshalJSON without the surrounding quotes
MarshalJSON_Unquoted(p) ==
    IF p \notin DOMAIN reverseMapEnrollType
    THEN [b |-> <<>>, err |-> NewError(ErrUnknownType)]
    ELSE [b |-> reverseMapEnrollType[p], err |-> NilErr]

\* MarshalJSON without the table lookup
MarshalJSON_AnyValue(p) == [b |-> JsonMarshalString(p), err |-> NilErr]

\* (p EnrollType) MarshalJSON(): the bytes and the error
MarshalJSON(p) ==
    IF p \notin DOMAIN reverseMapEnrollType
    THEN [b |-> <<>>, err |-> NewError(ErrUnknownType)]
    ELSE [b |-> JsonMarshalString(reverseMapEnrollType[p]), err |-> NilErr]

-----------------------------------------------------------------------------
(* Inputs of the codec.                                                    *)

SeqsUpTo(A, n) == UNION {[1..k -> A] : k \in 0..n}

WireAlphabet == {Quote, "P", "n", "1"}

Delims == {Quote, "'", "[", "]", "x"}

EnrollTypes == {<<>>, PermanentEnroll, TEMPORARY}

Framed == {<<l>> \o t \o <<r>> : l \in Delims, r \in Delims,
                                  t \in {PERMANENT, TEMPORARY, <<>>, <<"P">>}}

JsonLiterals == {<<"n", "u", "l", "l">>, <<"t", "r", "u", "e">>, <<"1", "2", "3">>}

\* the byte strings handed to UnmarshalJSON
Wires == SeqsUpTo(WireAlphabet, MaxWireLen) \cup Framed \cup JsonLiterals

-----------------------------------------------------------------------------
(* EnrollRequest, Metadata and the request serialization.                  *)

ErrMissingToken == "missing enrollment token"
ErrMissingType == "missing enrollment type"
ErrMissingID == "missing ID"
ErrMissingAccessToken == "access token is missing"

\* Validate that stops at the first violation
EnrollRequest_Validate_FirstOnly(e) ==
    IF e.EnrollmentToken = "" THEN MultiAppend(NilErr, ErrMissingToken)
    ELSE IF e.Type = <<>> THEN MultiAppend(NilErr, ErrMissingType)
    ELSE NilErr

\* Validate that does not look at the token
EnrollRequest_Validate_NoToken(e) ==
    IF e.Type = <<>> THEN MultiAppend(NilErr, ErrMissingType) ELSE NilErr

\* (e *EnrollRequest) Validate()
EnrollRequest_Validate(e) ==
    LET err1 == IF e.EnrollmentToken = ""
                THEN MultiAppend(NilErr, ErrMissingToken) ELSE NilErr
        err2 == IF e.Type = <<>>
                THEN MultiAppend(err1, ErrMissingType) ELSE err1
    IN  err2

\* json.Marshal of a map[string]interface{}: nil encodes as null, a value
\* encoding/json does not support (a channel, a func, NaN) makes it fail
MarshalMap(m) ==
    CASE m = "nil"         -> [b |-> "null", err |-> NilErr]
      [] m = "empty"       -> [b |-> "{}", err |-> NilErr]
      [] m = "unsupported" -> [b |-> "", err |-> NewError("json: unsupported type")]
      [] OTHER             -> [b |-> m, err |-> NilErr]

\* the struct tags of Metadata: both maps are always encoded
MarshalMetadata(md) ==
    LET l == MarshalMap(md.Local)
        u == MarshalMap(md.UserProvided)
    IN  IF l.err # NilErr THEN [b |-> <<>>, err |-> l.err]
        ELSE IF u.err # NilErr THEN [b |-> <<>>, err |-> u.err]
        ELSE [b |-> <<[local |-> l.b, userProvided |-> u.b]>>, err |-> NilErr]

\* struct tags with the token tagged like the other fields
EnrollRequestFields_TokenInBody ==
    << [field |-> "EnrollmentToken", tag |-> "enrollmentToken", omitempty |-> FALSE],
       [field |-> "Type",            tag |-> "type",            omitempty |-> FALSE],
       [field |-> "SharedID",        tag |-> "sharedId",        omitempty |-> TRUE],
       [field |-> "Metadata",        tag |-> "metadata",        omitempty |-> FALSE] >>

\* the struct tags of EnrollRequest
EnrollRequestFields ==
    << [field |-> "EnrollmentToken", tag |-> "-",        omitempty |-> FALSE],
       [field |-> "Type",            tag |-> "type",     omitempty |-> FALSE],
       [field |-> "SharedID",        tag |-> "sharedId", omitempty |-> TRUE],
       [field |-> "Metadata",        tag |-> "metadata", omitempty |-> FALSE] >>

\* whether encoding/json leaves the field out: tag "-", or omitempty on an
\* empty string
FieldOmitted(f, r) ==
    \/ f.tag = "-"
    \/ f.omitempty /\ f.field = "SharedID" /\ r.SharedID = ""

\* the encoding of one field of the request
FieldEncoding(f, r) ==
    CASE f.field = "EnrollmentToken" -> [b |-> <<r.EnrollmentToken>>, err |-> NilErr]
      [] f.field = "Type"            -> MarshalJSON(r.Type)
      [] f.field = "SharedID"        -> [b |-> <<r.SharedID>>, err |-> NilErr]
      [] f.field = "Metadata"        -> MarshalMetadata(r.Metadata)

\* json.Marshal(r) at line 178: the JSON object as a function from its keys
\* to the encoded values, or the first error of a field encoder
JsonMarshalRequest(r) ==
    LET kept == {i \in DOMAIN EnrollRequestFields :
                    ~FieldOmitted(EnrollRequestFields[i], r)}
        bad  == {i \in kept : FieldEncoding(EnrollRequestFields[i], r).err # NilErr}
        Min(S) == CHOOSE i \in S : \A j \in S : i <= j
    IN  IF bad # {}
        THEN [b |-> <<>>,
              err |-> FieldEncoding(EnrollRequestFields[Min(bad)], r).err]
        ELSE [b |-> << [t \in {EnrollRequestFields[i].tag : i \in kept} |->
                          LET i == CHOOSE i \in kept : EnrollRequestFields[i].tag = t
                          IN  FieldEncoding(EnrollRequestFields[i], r).b] >>,
              err |-> NilErr]

-----------------------------------------------------------------------------
(* EnrollResponse, its decoding and its validation.                        *)

\* Validate that does not look at the access token
EnrollResponse_Validate_NoAccessToken(e) ==
    LET err1 == IF e.Item.ID = "" THEN MultiAppend(NilErr, ErrMissingID) ELSE NilErr
        err2 == IF e.Item.Type = <<>>
                THEN MultiAppend(err1, ErrMissingType) ELSE err1
    IN  err2

\* Validate that does not look at the identifier
EnrollResponse_Validate_NoID(e) ==
    LET err2 == IF e.Item.Type = <<>>
                THEN MultiAppend(NilErr, ErrMissingType) ELSE NilErr
        err3 == IF e.Item.AccessToken = ""
                THEN MultiAppend(err2, ErrMissingAccessToken) ELSE err2
    IN  err3

\* (e *EnrollResponse) Validate()
EnrollResponse_Validate(e) ==
    LET err1 == IF e.Item.ID = "" THEN MultiAppend(NilErr, ErrMissingID) ELSE NilErr
        err2 == IF e.Item.Type = <<>>
                THEN MultiAppend(err1, ErrMissingType) ELSE err1
        err3 == IF e.Item.AccessToken = ""
                THEN MultiAppend(err2, ErrMissingAccessToken) ELSE err2
    IN  err3

\* &EnrollResponse{}: the zero value the decoder fills in
ZeroEnrollResponse == [Item |-> [ID |-> "", Type |-> <<>>, AccessToken |-> ""]]

\* a JSON member as it stands in a response body
JAbsent == [k |-> "absent", s |-> "", raw |-> <<>>]
JNull == [k |-> "null", s |-> "", raw |-> <<"n", "u", "l", "l">>]
JNum == [k |-> "num", s |-> "", raw |-> <<"1">>]
JStr(s, raw) == [k |-> "str", s |-> s, raw |-> raw]

\* encoding/json storing a member into a Go string field: an absent member
\* and null leave the field alone, a string is stored, anything else is an
\* UnmarshalTypeError
DecodeString(old, j) ==
    CASE j.k \in {"absent", "null"} -> [v |-> old, err |-> NilErr]
      [] j.k = "str"                -> [v |-> j.s, err |-> NilErr]
      [] OTHER -> [v |-> old, err |-> NewError("json: cannot unmarshal into string")]

\* encoding/json storing a member into a field of type EnrollType: the raw
\* bytes of the member, null included, go to UnmarshalJSON
DecodeEnrollType(old, j) ==
    IF j.k = "absent" THEN [v |-> old, err |-> NilErr]
    ELSE LET u == UnmarshalJSON(old, j.raw) IN [v |-> u.p, err |-> u.err]

\* json.NewDecoder(resp.Body).Decode(enrollResponse)
Decode(body) ==
    IF ~body.json
    THEN [v |-> ZeroEnrollResponse, err |-> NewError("invalid character")]
    ELSE LET z   == ZeroEnrollResponse.Item
             id  == DecodeString(z.ID, body.id)
             ty  == DecodeEnrollType(z.Type, body.type)
             tok == DecodeString(z.AccessToken, body.access_token)
             err == IF ty.err # NilErr THEN ty.err
                    ELSE IF id.err # NilErr THEN id.err
                    ELSE tok.err
         IN  [v |-> [Item |-> [ID |-> id.v, Type |-> ty.v, AccessToken |-> tok.v]],
              err |-> err]

-----------------------------------------------------------------------------
(* The collaborators of Execute and the inputs of the model.               *)

StatusOK == 200

StatusCodes == {StatusOK, 201, 404, 500}

ExampleID == "a4937110-e53e-11e9-934f-47a8e38a522c"

TypeMembers ==
    { JAbsent, JNull, JNum,
      JStr("", JsonMarshalString(PERMANENT)),
      JStr("", JsonMarshalString(TEMPORARY)),
      JStr("", JsonMarshalString(<<>>)) }

Bodies ==
    { [json |-> FALSE, id |-> JAbsent, type |-> JAbsent, access_token |-> JAbsent] }
    \cup
    { [json |-> TRUE, id |-> i, type |-> t, access_token |-> a] :
        i \in {JAbsent, JNull, JNum, JStr("", <<>>), JStr(ExampleID, <<>>)},
        t \in TypeMembers,
        a \in {JAbsent, JNum, JStr("", <<>>), JStr("ACCESS_TOKEN", <<>>)} }

\* what clienter.Send yields without an error: a status code and a body
Responses == [StatusCode : StatusCodes, Body : Bodies]

\* what clienter.Send fails with
TransportErrors == {NewError("connection refused"), NewError("context deadline exceeded")}

\* what extract(resp.Body) produces
ExtractResults ==
    { NewError("Status code: 404, Kibana returned an error: Not Found"),
      Wrap(NewError("unexpected EOF"), "fail to read original error") }

Requests ==
    [ EnrollmentToken : {"", "tok123", "tok456"},
      Type            : EnrollTypes,
      SharedID        : {"", "shared-1"},
      Metadata        : [Local : {"nil", "os=macos", "unsupported"},
                         UserProvided : {"empty", "region=us-east"}] ]

Path == "/api/fleet/agents/enroll"
Key == "kbn-fleet-enrollment-token"

\* http.StatusOK comparison of line 189 done on the class of the code
IsOK_Any2xx(code) == code \div 100 = StatusOK \div 100

\* resp.StatusCode != http.StatusOK, negated
IsOK(code) == code = StatusOK

\* a deferred list that drops the call
Defer_Nothing(ds, call) == ds

\* defer: pushes the call on the deferred list of the running function
Defer(ds, call) == <<call>> \o ds

-----------------------------------------------------------------------------
(* EnrollCmd.Execute, one action per statement group.                      *)

\* a return statement: the deferred calls run, then the caller has the pair
Return(r, e, evs) ==
    /\ ret' = <<[resp |-> r, err |-> e]>>
    /\ events' = events \o evs \o deferred
    /\ deferred' = <<>>
    /\ pc' = "resolved"

\* lines 170-172
ExecuteValidate ==
    /\ pc = "pending"
    /\ LET err == EnrollRequest_Validate(req)
       IN  IF err # NilErr
           THEN Return(<<>>, err, <<"Validate">>)
           ELSE /\ pc' = "encode"
                /\ events' = Append(events, "Validate")
                /\ UNCHANGED <<ret, deferred>>
    /\ UNCHANGED <<calls, req, headers, b, sent, resp, enrollResponse, extracted>>
    /\ UNCHANGED codecVars

\* lines 174-181
ExecuteMarshal ==
    /\ pc = "encode"
    /\ headers' = [k \in {Key} |-> <<req.EnrollmentToken>>]
    /\ LET m == JsonMarshalRequest(req)
       IN  IF m.err # NilErr
           THEN /\ Return(<<>>, Wrap(m.err, "fail to encode the enrollment request"),
                          <<"Marshal">>)
                /\ b' = b
           ELSE /\ b' = m.b
                /\ pc' = "send"
                /\ events' = Append(events, "Marshal")
                /\ UNCHANGED <<ret, deferred>>
    /\ UNCHANGED <<calls, req, sent, resp, enrollResponse, extracted>>
    /\ UNCHANGED codecVars

\* lines 183-187
ExecuteSend ==
    /\ pc = "send"
    /\ sent' = Append(sent, [method |-> "POST", path |-> Path, query |-> <<>>,
                             headers |-> headers, body |-> b])
    /\ \/ \E err \in TransportErrors :
            /\ Return(<<>>, err, <<"Send">>)
            /\ resp' = resp
       \/ \E r \in Responses :
            /\ resp' = <<r>>
            /\ deferred' = Defer(deferred, "Close")
            /\ events' = Append(events, "Send")
            /\ pc' = "status"
            /\ ret' = ret
    /\ UNCHANGED <<calls, req, headers, b, enrollResponse, extracted>>
    /\ UNCHANGED codecVars

\* lines 189-193
ExecuteCheckStatus ==
    /\ pc = "status"
    /\ IF ~IsOK(resp[1].StatusCode)
       THEN \E err \in ExtractResults :
               /\ extracted' = <<err>>
               /\ Return(<<>>, err, <<"extract">>)
               /\ enrollResponse' = enrollResponse
       ELSE /\ enrollResponse' = <<ZeroEnrollResponse>>
            /\ pc' = "decode"
            /\ UNCHANGED <<extracted, ret, events, deferred>>
    /\ UNCHANGED <<calls, req, headers, b, sent, resp>>
    /\ UNCHANGED codecVars

\* lines 194-197
ExecuteDecode ==
    /\ pc = "decode"
    /\ LET d == Decode(resp[1].Body)
       IN  /\ enrollResponse' = <<d.v>>
           /\ IF d.err # NilErr
              THEN Return(<<>>, Wrap(d.err, "fail to decode enrollment response"),
                          <<"Decode">>)
              ELSE /\ pc' = "validate"
                   /\ events' = Append(events, "Decode")
                   /\ UNCHANGED <<ret, deferred>>
    /\ UNCHANGED <<calls, req, headers, b, sent, resp, extracted>>
    /\ UNCHANGED codecVars

\* lines 199-203
ExecuteValidateResponse ==
    /\ pc = "validate"
    /\ LET err == EnrollResponse_Validate(enrollResponse[1])
       IN  IF err # NilErr
           THEN Return(<<>>, err, <<"ValidateResponse">>)
           ELSE Return(enrollResponse, NilErr, <<"ValidateResponse">>)
    /\ UNCHANGED <<calls, req, headers, b, sent, resp, enrollResponse, extracted>>
    /\ UNCHANGED codecVars

\* the caller invokes Execute again on the same EnrollCmd with a new request
NewCall ==
    /\ pc = "resolved"
    /\ calls < MaxCalls
    /\ calls' = calls + 1
    /\ req' \in Requests
    /\ pc' = "pending"
    /\ headers' = <<>>
    /\ b' = <<>>
    /\ sent' = <<>>
    /\ resp' = <<>>
    /\ deferred' = <<>>
    /\ enrollResponse' = <<>>
    /\ extracted' = <<>>
    /\ ret' = <<>>
    /\ events' = <<>>
    /\ UNCHANGED codecVars

CodecIdle ==
    /\ cOp = "none"
    /\ cIn = <<>>
    /\ cTarget = <<>>
    /\ cOut = [p |-> <<>>, b |-> <<>>, err |-> NilErr]

Init ==
    /\ pc = "pending"
    /\ calls = 1
    /\ req \in Requests
    /\ headers = <<>>
    /\ b = <<>>
    /\ sent = <<>>
    /\ resp = <<>>
    /\ deferred = <<>>
    /\ enrollResponse = <<>>
    /\ extracted = <<>>
    /\ ret = <<>>
    /\ events = <<>>
    /\ CodecIdle

Next ==
    \/ ExecuteValidate
    \/ ExecuteMarshal
    \/ ExecuteSend
    \/ ExecuteCheckStatus
    \/ ExecuteDecode
    \/ ExecuteValidateResponse
    \/ NewCall

Spec == Init /\ [][Next]_vars

-----------------------------------------------------------------------------
(* The codec on its own: the two methods applied to inputs drawn from      *)
(* Wires and EnrollTypes.                                                  *)

ExecIdle ==
    /\ pc = "idle"
    /\ calls = 0
    /\ req = <<>>
    /\ headers = <<>>
    /\ b = <<>>
    /\ sent = <<>>
    /\ resp = <<>>
    /\ deferred = <<>>
    /\ enrollResponse = <<>>
    /\ extracted = <<>>
    /\ ret = <<>>
    /\ events = <<>>

\* p.UnmarshalJSON(bytes) on a target holding p0
DoUnmarshalJSON ==
    /\ \E bytes \in Wires, p0 \in EnrollTypes :
          LET u == UnmarshalJSON(p0, bytes)
          IN  /\ cOp' = "UnmarshalJSON"
              /\ cIn' = bytes
              /\ cTarget' = p0
              /\ cOut' = [p |-> u.p, b |-> <<>>, err |-> u.err]
    /\ UNCHANGED execVars

\* v.MarshalJSON()
DoMarshalJSON ==
    /\ \E v \in EnrollTypes :
          LET m == MarshalJSON(v)
          IN  /\ cOp' = "MarshalJSON"
              /\ cIn' = v
              /\ cTarget' = <<>>
              /\ cOut' = [p |-> v, b |-> m.b, err |-> m.err]
    /\ UNCHANGED execVars

\* v.MarshalJSON() and, when it succeeds, UnmarshalJSON of its bytes into a
\* target holding p0
DoRoundTrip ==
    /\ \E v \in EnrollTypes, p0 \in EnrollTypes :
          LET m == MarshalJSON(v)
              u == UnmarshalJSON(p0, m.b)
          IN  /\ cOp' = "RoundTrip"
              /\ cIn' = v
              /\ cTarget' = p0
              /\ cOut' = IF m.err # NilErr
                         THEN [p |-> p0, b |-> m.b, err |-> m.err]
                         ELSE [p |-> u.p, b |-> m.b, err |-> u.err]
    /\ UNCHANGED execVars

CodecInit == ExecIdle /\ CodecIdle

CodecNext == DoUnmarshalJSON \/ DoMarshalJSON \/ DoRoundTrip

CodecSpec == CodecInit /\ [][CodecNext]_vars

-----------------------------------------------------------------------------
(* Properties.                                                             *)

Resolved == pc = "resolved"

Count(seq, x) == Cardinality({i \in DOMAIN seq : seq[i] = x})

\* the violations a validation has to report, in the order of the checks
Violations(checks) ==
    LET RECURSIVE Go(_)
        Go(i) == IF i > Len(checks) THEN <<>>
                 ELSE (IF checks[i][1] THEN <<checks[i][2]>> ELSE <<>>) \o Go(i + 1)
    IN  Go(1)

\* C1: every Execute resolves to either a response whose Item.ID, Item.Type
\* and Item.AccessToken are all non-empty together with a nil error, or to a
\* nil response together with a non-nil error; never both and never neither.
\* Nothing is returned while the call is still running.
C1_ResponseXorError ==
    /\ ~Resolved => ret = <<>>
    /\ Resolved =>
         /\ Len(ret) = 1
         /\ \/ /\ ret[1].resp # <<>>
               /\ ret[1].err = NilErr
               /\ ret[1].resp[1].Item.ID # ""
               /\ ret[1].resp[1].Item.Type # <<>>
               /\ ret[1].resp[1].Item.AccessToken # ""
            \/ /\ ret[1].resp = <<>>
               /\ ret[1].err # NilErr

C1_Witness ==
    /\ Resolved
    /\ ret[1].resp # <<>>
    /\ ret[1].resp[1].Item.ID = ExampleID
    /\ ret[1].err = NilErr

\* C2: Send is invoked only after Validate succeeded; with an empty token or
\* an empty type Execute returns the aggregated validation error right after
\* Validate and Send is never called.
C2_NoSendBeforeValidation ==
    /\ sent # <<>> =>
         /\ req.EnrollmentToken # ""
         /\ req.Type # <<>>
         /\ Len(events) >= 2
         /\ events[1] = "Validate"
    /\ (pc # "pending" /\ (req.EnrollmentToken = "" \/ req.Type = <<>>)) =>
         /\ sent = <<>>
         /\ Resolved
         /\ events = <<"Validate">>
         /\ ret[1].resp = <<>>
         /\ ret[1].err.kind = "multierror"
         /\ ret[1].err.msgs =
              Violations(<< <<req.EnrollmentToken = "", ErrMissingToken>>,
                            <<req.Type = <<>>, ErrMissingType>> >>)

C2_Witness ==
    /\ Resolved
    /\ req.EnrollmentToken = ""
    /\ req.Type = PermanentEnroll
    /\ sent = <<>>
    /\ ret[1].err.msgs = <<ErrMissingToken>>

\* C3: once Send has returned a response, the body is closed exactly once,
\* as the last thing Execute does before it returns, on every exit path, and
\* only after the body was read by the decoder or by the error extraction;
\* it is not closed while Execute is still running.
C3_BodyClosedAfterRead ==
    resp # <<>> =>
      /\ ~Resolved => Count(events, "Close") = 0
      /\ Resolved =>
           /\ Count(events, "Close") = 1
           /\ events[Len(events)] = "Close"
           /\ \E i \in DOMAIN events :
                 /\ events[i] \in {"Decode", "extract"}
                 /\ i < Len(events)
           /\ ret # <<>>

C3_Witness ==
    /\ Resolved
    /\ resp # <<>>
    /\ events = <<"Validate", "Marshal", "Send", "Decode", "ValidateResponse", "Close">>
    /\ ret[1].resp = <<>>

\* C4: the body passed to Send has no member for the enrollment token and is
\* the same for every request that differs from this one only in its
\* (non-empty) token; the token travels in the kbn-fleet-enrollment-token
\* header alone.
C4_TokenOnlyInHeader ==
    \A i \in DOMAIN sent :
      /\ sent[i].method = "POST"
      /\ sent[i].path = Path
      /\ DOMAIN sent[i].headers = {Key}
      /\ sent[i].headers[Key] = <<req.EnrollmentToken>>
      /\ Len(sent[i].body) = 1
      /\ DOMAIN sent[i].body[1] \subseteq {"type", "sharedId", "metadata"}
      /\ \A t \in {"tok123", "tok456", "other-token"} :
            JsonMarshalRequest([req EXCEPT !.EnrollmentToken = t]).b = sent[i].body

C4_Witness ==
    /\ Len(sent) = 1
    /\ req.EnrollmentToken = "tok123"
    /\ req.SharedID = ""
    /\ sent[1].headers[Key] = <<"tok123">>
    /\ DOMAIN sent[1].body[1] = {"type", "metadata"}
    /\ sent[1].body[1]["type"] = JsonMarshalString(PERMANENT)

\* C5: on a status code other than 200 the body goes to the error extraction,
\* whose result is returned as the error with a nil response; the body is not
\* decoded and the response validation is not run.
C5_NonOKDelegatesToExtract ==
    (resp # <<>> /\ resp[1].StatusCode # StatusOK) =>
      /\ pc \in {"status", "resolved"}
      /\ enrollResponse = <<>>
      /\ Count(events, "Decode") = 0
      /\ Count(events, "ValidateResponse") = 0
      /\ Resolved =>
           /\ Count(events, "extract") = 1
           /\ Len(extracted) = 1
           /\ ret[1].resp = <<>>
           /\ ret[1].err = extracted[1]

C5_Witness ==
    /\ Resolved
    /\ resp # <<>>
    /\ resp[1].StatusCode = 201
    /\ resp[1].Body.json
    /\ resp[1].Body.access_token.s = "ACCESS_TOKEN"
    /\ ret[1].err = extracted[1]

\* C6: EnrollRequest.Validate returns no error exactly when token and type
\* are both non-empty, whatever SharedID and Metadata hold; otherwise its
\* aggregate holds "missing enrollment token" iff the token is empty and
\* "missing enrollment type" iff the type is empty, and nothing else.
C6_RequestValidation ==
    events # <<>> =>
      LET failed == Resolved /\ events = <<"Validate">>
      IN  /\ failed <=> (req.EnrollmentToken = "" \/ req.Type = <<>>)
          /\ failed =>
               /\ ret[1].err.kind = "multierror"
               /\ (ErrMissingToken \in Range(ret[1].err.msgs))
                     <=> req.EnrollmentToken = ""
               /\ (ErrMissingType \in Range(ret[1].err.msgs))
                     <=> req.Type = <<>>
               /\ Range(ret[1].err.msgs) \subseteq {ErrMissingToken, ErrMissingType}
               /\ Len(ret[1].err.msgs) = Cardinality(Range(ret[1].err.msgs))

C6_Witness ==
    /\ Resolved
    /\ req.EnrollmentToken = ""
    /\ req.Type = <<>>
    /\ req.SharedID # ""
    /\ Len(ret[1].err.msgs) = 2

\* C7: EnrollResponse.Validate returns no error exactly when Item.ID,
\* Item.Type and Item.AccessToken are all non-empty; otherwise the aggregate
\* holds one violation per empty field and none for a present one, and
\* Execute returns that error and no response.
C7_ResponseValidation ==
    (Resolved /\ Count(events, "ValidateResponse") = 1) =>
      LET it == enrollResponse[1].Item
          ok == it.ID # "" /\ it.Type # <<>> /\ it.AccessToken # ""
      IN  /\ ret[1].err = NilErr <=> ok
          /\ ok => ret[1].resp = enrollResponse
          /\ ~ok =>
               /\ ret[1].resp = <<>>
               /\ ret[1].err.kind = "multierror"
               /\ ret[1].err.msgs =
                    Violations(<< <<it.ID = "", ErrMissingID>>,
                                  <<it.Type = <<>>, ErrMissingType>>,
                                  <<it.AccessToken = "", ErrMissingAccessToken>> >>)

C7_Witness ==
    /\ Resolved
    /\ resp # <<>>
    /\ resp[1].StatusCode = StatusOK
    /\ resp[1].Body.access_token.k = "absent"
    /\ resp[1].Body.id.s = ExampleID
    /\ ret[1].resp = <<>>
    /\ ret[1].err.msgs = <<ErrMissingAccessToken>>

C9_RoundTrip ==
    /\ (cOp = "RoundTrip" /\ cIn \in {mapEnrollType[k] : k \in DOMAIN mapEnrollType}) =>
         /\ cOut.err = NilErr
         /\ cOut.p = cIn
    /\ DOMAIN reverseMapEnrollType = {mapEnrollType[k] : k \in DOMAIN mapEnrollType}
    /\ \A k \in DOMAIN mapEnrollType : reverseMapEnrollType[mapEnrollType[k]] = k

C9_Witness ==
    /\ cOp = "RoundTrip"
    /\ cIn = PermanentEnroll
    /\ cTarget = TEMPORARY
    /\ cOut.b = <<Quote>> \o PERMANENT \o <<Quote>>
    /\ cOut.p = PermanentEnroll

\* C10: a request with a non-empty token and a non-empty type outside the
\* canonical table passes Validate, fails at serialization, and Execute
\* returns the wrapped encoding error with no response; Send is never called.
C10_UnknownTypeFailsBeforeSend ==
    (req # <<>> /\ req.EnrollmentToken # "" /\ req.Type # <<>>
       /\ req.Type \notin {mapEnrollType[k] : k \in DOMAIN mapEnrollType}) =>
      /\ sent = <<>>
      /\ resp = <<>>
      /\ pc \in {"pending", "encode", "resolved"}
      /\ Resolved =>
           /\ events = <<"Validate", "Marshal">>
           /\ ret[1].resp = <<>>
           /\ ret[1].err.kind = "wrapped"
           /\ ret[1].err.msgs =
                <<"fail to encode the enrollment request", ErrUnknownType>>

C10_Witness ==
    /\ Resolved
    /\ req.EnrollmentToken = "tok123"
    /\ req.Type = TEMPORARY
    /\ req.Metadata.Local = "unsupported"
    /\ ret[1].err.msgs = <<"fail to encode the enrollment request", ErrUnknownType>>

====
